---- MODULE Spec2Model ----
(***************************************************************************)
(* Xiangqi driver (App) of ghostgorge/ChineseChess: the React component    *)
(* that holds the board, the side to move, the selection and the game      *)
(* status, lets the human play Red, and asks a move-suggestion service for *)
(* Black's move.                                                           *)
(*                                                                         *)
(* The driver (src/unnamed/part_000) and the value types (src/types.ts)    *)
(* are modelled from the source.  The rules engine (utils/xiangqi) and the *)
(* suggestion service (services/geminiService) are imported by the driver  *)
(* but are not among the source files; they are modelled from spec.md      *)
(* sections 4 and 6.                                                       *)
(*                                                                         *)
(* Coordinates: board[y][x], x = file 0..8, y = row 0..9.  Row 0 is the    *)
(* first record of the encoding (Black's back rank), row 9 the last        *)
(* (Red's back rank); spec.md's "rank" is 9 - y.                           *)
(***************************************************************************)
EXTENDS Integers, Sequences, FiniteSets, TLC

\* ---------------------------------------------------------------- types.ts

RED   == "w"
BLACK == "b"
Color == {RED, BLACK}

GENERAL  == "k"
ADVISOR  == "a"
ELEPHANT == "b"
HORSE    == "n"
ROOK     == "r"
CANNON   == "c"
SOLDIER  == "p"
PieceType == {GENERAL, ADVISOR, ELEPHANT, HORSE, ROOK, CANNON, SOLDIER}

PLAYING   == "PLAYING"
CHECKMATE == "CHECKMATE"
STALEMATE == "STALEMATE"
DRAW      == "DRAW"
GameStatus == {PLAYING, CHECKMATE, STALEMATE, DRAW}

\* Position.x ranges over 0..MaxX, Position.y over 0..MaxY.
MaxX == 8
MaxY == 9

Xs == 0..MaxX
Ys == 0..MaxY

Position == [x : Xs, y : Ys]

Pos(px, py) == [x |-> px, y |-> py]

Piece(t, c) == [type |-> t, color |-> c]

\* An empty square (null in the source); also "no position" and "no move".
null == [type |-> "none", color |-> "none"]
NoPos == [x |-> -1, y |-> -1]
NoMove == [from |-> NoPos, to |-> NoPos]

Move == [from : Position, to : Position]

Mv(fx, fy, tx, ty) == [from |-> Pos(fx, fy), to |-> Pos(tx, ty)]

Opposite(c) == IF c = RED THEN BLACK ELSE RED

\* ------------------------------------------------- utils/xiangqi (spec.md 4)

isPosValid(px, py) == px \in Xs /\ py \in Ys

At(b, px, py) == b[py][px]

IsEmptyAt(b, px, py) == At(b, px, py) = null

\* A piece of colour c may land on (px, py): on the board and not on its own.
CanLand(b, c, px, py) == isPosValid(px, py) /\ At(b, px, py).color # c

\* The 3x3 palace of colour c: files 3..5, Black's rows 0..2, Red's rows 7..9.
InPalace(c, px, py) ==
    /\ px \in 3..5
    /\ IF c = BLACK THEN py \in 0..2 ELSE py \in 7..9

\* The half of the board of colour c (the river runs between rows 4 and 5).
OwnHalf(c, py) == IF c = BLACK THEN py <= 4 ELSE py >= 5

Orthogonal == {<<1, 0>>, <<-1, 0>>, <<0, 1>>, <<0, -1>>}
Diagonal   == {<<1, 1>>, <<1, -1>>, <<-1, 1>>, <<-1, -1>>}

\* Horse: the leg (adjacent orthogonal point) and the two landings beyond it.
HorseSteps ==
    { <<d[1], d[2], 2 * d[1] + s * d[2], 2 * d[2] + s * d[1]>> :
        d \in Orthogonal, s \in {1, -1} }

\* Number of consecutive empty squares after (px, py) in direction d.
RECURSIVE FreeRun(_, _, _, _)
FreeRun(b, px, py, d) ==
    IF isPosValid(px + d[1], py + d[2]) /\ IsEmptyAt(b, px + d[1], py + d[2])
    THEN 1 + FreeRun(b, px + d[1], py + d[2], d)
    ELSE 0

\* The square k steps from (px, py) in direction d.
Step(px, py, d, k) == Pos(px + k * d[1], py + k * d[2])

\* Rook along d: every empty square up to the first occupied one, and that
\* one too when it holds an enemy piece.
RookRay(b, c, px, py, d) ==
    LET n == FreeRun(b, px, py, d)
    IN  { Step(px, py, d, k) : k \in 1..n } \cup
        (IF CanLand(b, c, px + (n + 1) * d[1], py + (n + 1) * d[2])
         THEN {Step(px, py, d, n + 1)} ELSE {})

\* Cannon along d: every empty square up to the first occupied one (the
\* screen), and the first occupied square beyond the screen when it holds an
\* enemy piece.
CannonRay(b, c, px, py, d) ==
    LET n == FreeRun(b, px, py, d)
        s == Step(px, py, d, n + 1)
        j == IF isPosValid(s.x, s.y) THEN n + 2 + FreeRun(b, s.x, s.y, d) ELSE 0
        t == Step(px, py, d, j)
    IN  { Step(px, py, d, k) : k \in 1..n } \cup
        (IF j > 0 /\ isPosValid(t.x, t.y) /\ At(b, t.x, t.y).color = Opposite(c)
         THEN {t} ELSE {})

\* Destinations of the piece standing on (px, py): pseudo-legal, i.e. the
\* piece's movement shape only, own general's safety not considered.
PieceDestinations(b, px, py) ==
    LET p == At(b, px, py)
        c == p.color
        t == p.type
    IN  CASE t = GENERAL ->
               { Pos(px + d[1], py + d[2]) : d \in
                   { e \in Orthogonal :
                       /\ CanLand(b, c, px + e[1], py + e[2])
                       /\ InPalace(c, px + e[1], py + e[2]) } }
          [] t = ADVISOR ->
               { Pos(px + d[1], py + d[2]) : d \in
                   { e \in Diagonal :
                       /\ CanLand(b, c, px + e[1], py + e[2])
                       /\ InPalace(c, px + e[1], py + e[2]) } }
          [] t = ELEPHANT ->
               { Pos(px + 2 * d[1], py + 2 * d[2]) : d \in
                   { e \in Diagonal :
                       /\ CanLand(b, c, px + 2 * e[1], py + 2 * e[2])
                       /\ OwnHalf(c, py + 2 * e[2])
                       /\ IsEmptyAt(b, px + e[1], py + e[2]) } }
          [] t = HORSE ->
               { Pos(px + h[3], py + h[4]) : h \in
                   { g \in HorseSteps :
                       /\ CanLand(b, c, px + g[3], py + g[4])
                       /\ IsEmptyAt(b, px + g[1], py + g[2]) } }
          [] t = ROOK ->
               UNION { RookRay(b, c, px, py, d) : d \in Orthogonal }
          [] t = CANNON ->
               UNION { CannonRay(b, c, px, py, d) : d \in Orthogonal }
          [] t = SOLDIER ->
               LET fwd     == IF c = RED THEN -1 ELSE 1
                   crossed == ~OwnHalf(c, py)
                   steps   == {<<0, fwd>>} \cup
                              (IF crossed THEN {<<1, 0>>, <<-1, 0>>} ELSE {})
               IN  { Pos(px + d[1], py + d[2]) : d \in
                       { e \in steps : CanLand(b, c, px + e[1], py + e[2]) } }
          [] OTHER -> {}

\* The squares holding a piece of colour c.
PiecesOf(b, c) == { q \in Position : At(b, q.x, q.y).color = c }

getPseudoLegalMoves(b, c) ==
    UNION { { [from |-> q, to |-> d] : d \in PieceDestinations(b, q.x, q.y) } :
            q \in PiecesOf(b, c) }

\* apply(board, move): the piece at move.from is relocated to move.to.
applyMove(b, m) ==
    [b EXCEPT ![m.to.y][m.to.x] = b[m.from.y][m.from.x],
              ![m.from.y][m.from.x] = null]

\* No piece moves further than two steps off its row and column: a piece
\* on q can reach g only if it shares g's row or column or stands within two
\* rows and two columns of it.
InReach(q, g) ==
    \/ q.x = g.x
    \/ q.y = g.y
    \/ (q.x - g.x) \in -2..2 /\ (q.y - g.y) \in -2..2

\* side's general's square is a destination of an opposing pseudo-legal move.
isInCheck(b, side) ==
    \E g \in { q \in PiecesOf(b, side) : At(b, q.x, q.y).type = GENERAL } :
        \E q \in PiecesOf(b, Opposite(side)) :
            InReach(q, g) /\ g \in PieceDestinations(b, q.x, q.y)

\* A pseudo-legal move is legal iff, once applied, the mover's general is not
\* attacked.  (The flying-general rule is not part of the reference behaviour.)
getLegalMoves(b, side) ==
    { m \in getPseudoLegalMoves(b, side) : ~isInCheck(applyMove(b, m), side) }

\* ---------------------------------------------- board encoding (spec.md 4.1)
\* A text is modelled as the sequence of its characters.

LowerLetters == <<"k", "a", "b", "n", "r", "c", "p">>
UpperLetters == <<"K", "A", "B", "N", "R", "C", "P">>
Digits       == <<"1", "2", "3", "4", "5", "6", "7", "8", "9">>

IndexIn(seq, ch) == CHOOSE i \in 1..Len(seq) : seq[i] = ch
Occurs(seq, ch)  == \E i \in 1..Len(seq) : seq[i] = ch

\* Uppercase letters are Red pieces, lowercase letters Black pieces.
PieceOfLetter(ch) ==
    IF Occurs(LowerLetters, ch) THEN Piece(ch, BLACK)
    ELSE Piece(LowerLetters[IndexIn(UpperLetters, ch)], RED)

LetterOfPiece(p) ==
    IF p.color = BLACK THEN p.type
    ELSE UpperLetters[IndexIn(LowerLetters, p.type)]

EmptyBoard == [y \in Ys |-> [x \in Xs |-> null]]

\* Placement field: records separated by "/", first record = row 0; a digit
\* skips that many empty squares, a letter places a piece.
RECURSIVE ParsePlacement(_, _, _, _, _)
ParsePlacement(text, i, px, py, b) ==
    IF i > Len(text) \/ text[i] = " " THEN b
    ELSE IF text[i] = "/" THEN ParsePlacement(text, i + 1, 0, py + 1, b)
    ELSE IF Occurs(Digits, text[i])
         THEN ParsePlacement(text, i + 1, px + IndexIn(Digits, text[i]), py, b)
    ELSE ParsePlacement(text, i + 1, px + 1, py,
                        [b EXCEPT ![py][px] = PieceOfLetter(text[i])])

\* Index of the first blank of the text (the end of the placement field).
FirstBlank(text) ==
    CHOOSE i \in 1..Len(text) : text[i] = " " /\ \A j \in 1..(i - 1) : text[j] # " "

\* parse(text) -> (Board, Color); the fields after the side to move are ignored.
createBoardFromFEN(text) ==
    [board |-> ParsePlacement(text, 1, 0, 0, EmptyBoard),
     turn  |-> IF text[FirstBlank(text) + 1] = "b" THEN BLACK ELSE RED]

\* One record: runs of empty squares as a digit, pieces as their letter.
RECURSIVE FormatRow(_, _, _)
FormatRow(row, px, run) ==
    IF px > MaxX THEN (IF run > 0 THEN <<Digits[run]>> ELSE <<>>)
    ELSE IF row[px] = null THEN FormatRow(row, px + 1, run + 1)
    ELSE (IF run > 0 THEN <<Digits[run]>> ELSE <<>>)
         \o <<LetterOfPiece(row[px])>> \o FormatRow(row, px + 1, 0)

RECURSIVE FormatRows(_, _)
FormatRows(b, py) ==
    IF py = MaxY THEN FormatRow(b[py], 0, 0)
    ELSE FormatRow(b[py], 0, 0) \o <<"/">> \o FormatRows(b, py + 1)

\* format(Board, Color) -> text, with the placeholder trailing fields.
boardToFEN(b, side) ==
    FormatRows(b, 0) \o <<" ", side, " ", "-", " ", "-", " ", "0", " ", "1">>

\* ------------------------------------------------------ src/unnamed/part_000

INITIAL_FEN ==
    <<
       "r", "n", "b", "a", "k", "a", "b", "n", "r", "/", "9", "/",
       "1", "c", "5", "c", "1", "/", "p", "1", "p", "1", "p", "1",
       "p", "1", "p", "/", "9", "/", "9", "/", "P", "1", "P", "1",
       "P", "1", "P", "1", "P", "/", "1", "C", "5", "C", "1", "/",
       "9", "/", "R", "N", "B", "A", "K", "A", "B", "N", "R", " ",
       "w", " ", "-", " ", "-", " ", "0", " ", "1"
    >>

InitialGame == createBoardFromFEN(INITIAL_FEN)

\* Size bounds of the model: requests outstanding at once, human inputs that
\* change the game (applied moves plus New Game presses), and the grain of
\* Math.random().
MaxRequests   == 2
MaxInputs     == 3
RandomGrain   == 1

\* The squares the human clicks.
ClickSquares == { Pos(1, 7), Pos(4, 7), Pos(1, 0), Pos(4, 9) }

\* The answers of the suggestion service: a legal reply, a move from an empty
\* square, a move onto Red's general, a move onto its own square, and an
\* illegal horse jump that gives check.
Suggestions ==
    { Mv(7, 2, 4, 2), Mv(4, 4, 4, 5), Mv(0, 0, 4, 9), Mv(8, 0, 8, 0),
      Mv(7, 0, 3, 7) }

NoError == "none"
AiTrouble == "AI had trouble thinking. Retrying..."

VARIABLES
    board,              \* useState: BoardState
    turn,               \* useState: Color, the side to move
    selectedPos,        \* useState: Position | null
    validDestinations,  \* useState: Position[]
    gameStatus,         \* useState: GameStatus
    lastMove,           \* useState: Move | null
    isAiThinking,       \* useState: boolean
    aiError,            \* useState: string | null
    requests,           \* the makeAiMove invocations that have not finished
    last,               \* history: what the latest step did
    nHumanMoves,        \* history: number of moves applied by clicks
    nResets,            \* history: number of New Game presses
    humanMoved          \* history: a click applied a move since the last New Game

state == <<board, turn, selectedPos, validDestinations, gameStatus, lastMove,
           isAiThinking, aiError>>
vars  == <<board, turn, selectedPos, validDestinations, gameStatus, lastMove,
           isAiThinking, aiError, requests, last, nHumanMoves, nResets,
           humanMoved>>

RemoveAt(seq, i) == SubSeq(seq, 1, i - 1) \o SubSeq(seq, i + 1, Len(seq))

\* Array order of a move set: by origin, then by destination, row by row.
MoveKey(m) == ((m.from.y * 9 + m.from.x) * 90) + (m.to.y * 9 + m.to.x)

\* legalMoves[idx] of the array holding the moves of S.
NthMove(S, idx) ==
    CHOOSE m \in S : Cardinality({ o \in S : MoveKey(o) < MoveKey(m) }) = idx

\* legalMoves[Math.floor(Math.random() * legalMoves.length)], Math.random()
\* being k / RandomGrain.
randomMove(S, k) == NthMove(S, (k * Cardinality(S)) \div RandomGrain)

\* getLegalMoves(b, side).length === 0
NoLegalMoves(b, side) ==
    \A m \in getPseudoLegalMoves(b, side) : isInCheck(applyMove(b, m), side)

\* executeMove without the capture-of-a-General check.
executeMoveNoFailSafe(b, t, move) ==
    LET movingPiece == b[move.from.y][move.from.x]
        newBoard    == [[b EXCEPT ![move.to.y][move.to.x] = movingPiece]
                          EXCEPT ![move.from.y][move.from.x] = null]
        nextTurn    == IF t = RED THEN BLACK ELSE RED
    IN  IF movingPiece = null
        THEN UNCHANGED <<board, lastMove, selectedPos, validDestinations,
                         gameStatus, turn>>
        ELSE /\ board' = newBoard
             /\ lastMove' = move
             /\ selectedPos' = NoPos
             /\ validDestinations' = {}
             /\ turn' = nextTurn
             /\ gameStatus' = IF NoLegalMoves(newBoard, nextTurn)
                              THEN CHECKMATE ELSE gameStatus

\* executeMove without setSelectedPos(null) and setValidDestinations([]).
executeMoveKeepsSelection(b, t, move) ==
    LET movingPiece == b[move.from.y][move.from.x]
        targetPiece == b[move.to.y][move.to.x]
        newBoard    == [[b EXCEPT ![move.to.y][move.to.x] = movingPiece]
                          EXCEPT ![move.from.y][move.from.x] = null]
        nextTurn    == IF t = RED THEN BLACK ELSE RED
    IN  IF movingPiece = null
        THEN UNCHANGED <<board, lastMove, selectedPos, validDestinations,
                         gameStatus, turn>>
        ELSE /\ board' = newBoard
             /\ lastMove' = move
             /\ UNCHANGED <<selectedPos, validDestinations>>
             /\ IF targetPiece.type = GENERAL
                THEN /\ gameStatus' = CHECKMATE
                     /\ turn' = turn
                ELSE /\ turn' = nextTurn
                     /\ gameStatus' = IF NoLegalMoves(newBoard, nextTurn)
                                      THEN CHECKMATE ELSE gameStatus

\* executeMove as called from a render whose board and turn are b and t.
executeMove(b, t, move) ==
    LET movingPiece == b[move.from.y][move.from.x]
        targetPiece == b[move.to.y][move.to.x]
        newBoard    == [[b EXCEPT ![move.to.y][move.to.x] = movingPiece]
                          EXCEPT ![move.from.y][move.from.x] = null]
        nextTurn    == IF t = RED THEN BLACK ELSE RED
    IN  IF movingPiece = null
        THEN UNCHANGED <<board, lastMove, selectedPos, validDestinations,
                         gameStatus, turn>>
        ELSE /\ board' = newBoard
             /\ lastMove' = move
             /\ selectedPos' = NoPos
             /\ validDestinations' = {}
             /\ IF targetPiece.type = GENERAL
                THEN /\ gameStatus' = CHECKMATE
                     /\ turn' = turn
                ELSE /\ turn' = nextTurn
                     /\ gameStatus' = IF NoLegalMoves(newBoard, nextTurn)
                                      THEN CHECKMATE ELSE gameStatus

\* The dependencies [turn, gameStatus] changed and it is Black's turn to play.
AiTurnDue ==
    /\ turn' # turn \/ gameStatus' # gameStatus
    /\ turn' = BLACK
    /\ gameStatus' = PLAYING

\* The AI-turn effect, run after the render that follows a handler;
\* thinking and error are the values the handler left.  It starts
\* makeAiMove, which captures the board and the turn of that render.
useEffectAiTurn(thinking, error, pending) ==
    IF AiTurnDue
    THEN /\ isAiThinking' = TRUE
         /\ aiError' = NoError
         /\ requests' = Append(pending,
                [board |-> board', turn |-> turn', phase |-> "delay",
                 fen |-> <<>>, legalMoves |-> {}, color |-> RED,
                 game |-> nResets'])
    ELSE /\ isAiThinking' = thinking
         /\ aiError' = error
         /\ requests' = pending

\* What the step did: whether executeMove (called with board b) replaced the
\* board, the board it was called with, whether the destination held a
\* General, whether the request predates the last New Game, whether the
\* effect started a request.
Did(kind, b, move, stale) ==
    [kind     |-> kind,
     applied  |-> move # NoMove /\ b[move.from.y][move.from.x] # null,
     input    |-> IF move # NoMove /\ b[move.from.y][move.from.x] # null
                  THEN b ELSE EmptyBoard,
     general  |-> move # NoMove /\ b[move.from.y][move.from.x] # null
                    /\ b[move.to.y][move.to.x].type = GENERAL,
     stale    |-> stale,
     started  |-> AiTurnDue]

\* resetGame without setIsAiThinking(false).
resetGameKeepsThinking ==
    /\ nHumanMoves + nResets < MaxInputs
    /\ board' = InitialGame.board
    /\ turn' = InitialGame.turn
    /\ gameStatus' = PLAYING
    /\ lastMove' = NoMove
    /\ selectedPos' = NoPos
    /\ validDestinations' = {}
    /\ nResets' = nResets + 1
    /\ useEffectAiTurn(isAiThinking, NoError, requests)
    /\ humanMoved' = FALSE
    /\ last' = [kind |-> "reset", applied |-> FALSE, input |-> EmptyBoard,
                general |-> FALSE,
                stale |-> FALSE, started |-> AiTurnDue]
    /\ UNCHANGED nHumanMoves

resetGame ==
    /\ nHumanMoves + nResets < MaxInputs
    /\ board' = InitialGame.board
    /\ turn' = InitialGame.turn
    /\ gameStatus' = PLAYING
    /\ lastMove' = NoMove
    /\ selectedPos' = NoPos
    /\ validDestinations' = {}
    /\ nResets' = nResets + 1
    /\ useEffectAiTurn(FALSE, NoError, requests)
    /\ humanMoved' = FALSE
    /\ last' = [kind |-> "reset", applied |-> FALSE, input |-> EmptyBoard,
                general |-> FALSE,
                stale |-> FALSE, started |-> AiTurnDue]
    /\ UNCHANGED nHumanMoves

\* handleSquareClick without the filter on the origin of the moves.
handleSquareClickNoFilter(pos) ==
    /\ ~(gameStatus # PLAYING \/ isAiThinking)
    /\ ~(turn # RED)
    /\ UNCHANGED nResets
    /\ LET piece == board[pos.y][pos.x]
       IN  IF piece # null /\ piece.color = turn
           THEN /\ selectedPos' = pos
                /\ validDestinations' =
                     { m.to : m \in getLegalMoves(board, turn) }
                /\ UNCHANGED <<board, turn, gameStatus, lastMove>>
                /\ last' = Did("click", board, NoMove, FALSE)
           ELSE IF selectedPos # NoPos /\ pos \in validDestinations
           THEN /\ executeMove(board, turn, [from |-> selectedPos, to |-> pos])
                /\ last' = Did("click", board,
                               [from |-> selectedPos, to |-> pos], FALSE)
           ELSE /\ selectedPos' = NoPos
                /\ validDestinations' = {}
                /\ UNCHANGED <<board, turn, gameStatus, lastMove>>
                /\ last' = Did("click", board, NoMove, FALSE)
    /\ useEffectAiTurn(isAiThinking, aiError, requests)
    /\ nHumanMoves' = nHumanMoves + (IF last'.applied THEN 1 ELSE 0)
    /\ nHumanMoves' + nResets <= MaxInputs
    /\ Len(requests') <= MaxRequests
    /\ humanMoved' = (humanMoved \/ last'.applied)

\* handleSquareClick moving the selected piece to any clicked square.
handleSquareClickAnyDestination(pos) ==
    /\ ~(gameStatus # PLAYING \/ isAiThinking)
    /\ ~(turn # RED)
    /\ UNCHANGED nResets
    /\ LET piece == board[pos.y][pos.x]
       IN  IF piece # null /\ piece.color = turn
           THEN /\ selectedPos' = pos
                /\ validDestinations' =
                     { m.to : m \in { l \in getLegalMoves(board, turn) :
                                        l.from = pos } }
                /\ UNCHANGED <<board, turn, gameStatus, lastMove>>
                /\ last' = Did("click", board, NoMove, FALSE)
           ELSE IF selectedPos # NoPos
           THEN /\ executeMove(board, turn, [from |-> selectedPos, to |-> pos])
                /\ last' = Did("click", board,
                               [from |-> selectedPos, to |-> pos], FALSE)
           ELSE /\ selectedPos' = NoPos
                /\ validDestinations' = {}
                /\ UNCHANGED <<board, turn, gameStatus, lastMove>>
                /\ last' = Did("click", board, NoMove, FALSE)
    /\ useEffectAiTurn(isAiThinking, aiError, requests)
    /\ nHumanMoves' = nHumanMoves + (IF last'.applied THEN 1 ELSE 0)
    /\ nHumanMoves' + nResets <= MaxInputs
    /\ Len(requests') <= MaxRequests
    /\ humanMoved' = (humanMoved \/ last'.applied)

handleSquareClick(pos) ==
    /\ ~(gameStatus # PLAYING \/ isAiThinking)
    /\ ~(turn # RED)
    /\ UNCHANGED nResets
    /\ LET piece == board[pos.y][pos.x]
       IN  IF piece # null /\ piece.color = turn
           THEN /\ selectedPos' = pos
                /\ validDestinations' =
                     { m.to : m \in { l \in getLegalMoves(board, turn) :
                                        l.from = pos } }
                /\ UNCHANGED <<board, turn, gameStatus, lastMove>>
                /\ last' = Did("click", board, NoMove, FALSE)
           ELSE IF selectedPos # NoPos /\ pos \in validDestinations
           THEN /\ executeMove(board, turn, [from |-> selectedPos, to |-> pos])
                /\ last' = Did("click", board,
                               [from |-> selectedPos, to |-> pos], FALSE)
           ELSE /\ selectedPos' = NoPos
                /\ validDestinations' = {}
                /\ UNCHANGED <<board, turn, gameStatus, lastMove>>
                /\ last' = Did("click", board, NoMove, FALSE)
    /\ useEffectAiTurn(isAiThinking, aiError, requests)
    /\ nHumanMoves' = nHumanMoves + (IF last'.applied THEN 1 ELSE 0)
    /\ nHumanMoves' + nResets <= MaxInputs
    /\ Len(requests') <= MaxRequests
    /\ humanMoved' = (humanMoved \/ last'.applied)

\* makeAiMove after the delay: the position and the legal moves are computed
\* from the captured board and turn; with no legal move it ends there.
makeAiMoveDelay(i) ==
    /\ UNCHANGED <<nHumanMoves, nResets, humanMoved>>
    /\ requests[i].phase = "delay"
    /\ \E legalMoves \in { getLegalMoves(requests[i].board, requests[i].turn) } :
         LET r   == requests[i]
             fen == boardToFEN(r.board, r.turn)
         IN  IF Cardinality(legalMoves) = 0
             THEN /\ gameStatus' = CHECKMATE
                  /\ UNCHANGED <<board, turn, selectedPos, validDestinations,
                                 lastMove>>
                  /\ useEffectAiTurn(FALSE, aiError, RemoveAt(requests, i))
             ELSE /\ requests' = [requests EXCEPT ![i] =
                                    [r EXCEPT !.phase = "asking", !.fen = fen,
                                              !.legalMoves = legalMoves]]
                  /\ UNCHANGED state
    /\ last' = [kind |-> "ai", applied |-> FALSE, input |-> EmptyBoard,
                general |-> FALSE,
                stale |-> requests[i].game < nResets, started |-> FALSE]

\* getBestMove resolved with a move: it is applied as it is.
makeAiMoveAnswer(i, bestMove) ==
    /\ UNCHANGED <<nHumanMoves, nResets, humanMoved>>
    /\ requests[i].phase = "asking"
    /\ LET r == requests[i]
       IN  /\ executeMove(r.board, r.turn, bestMove)
           /\ useEffectAiTurn(FALSE, aiError, RemoveAt(requests, i))
           /\ last' = Did("ai", r.board, bestMove, r.game < nResets)

\* getBestMove resolved with nothing: a random legal move.
makeAiMoveNoAnswer(i) ==
    /\ UNCHANGED <<nHumanMoves, nResets, humanMoved>>
    /\ requests[i].phase = "asking"
    /\ \E k \in 0..(RandomGrain - 1) :
         \E move \in { randomMove(requests[i].legalMoves, k) } :
           LET r == requests[i]
           IN  /\ executeMove(r.board, r.turn, move)
               /\ useEffectAiTurn(FALSE, aiError, RemoveAt(requests, i))
               /\ last' = Did("ai", r.board, move, r.game < nResets)

\* getBestMove rejected: the notice is set, the legal moves are computed
\* again from the captured board and turn, and a random one is applied.
makeAiMoveCatch(i) ==
    /\ UNCHANGED <<nHumanMoves, nResets, humanMoved>>
    /\ requests[i].phase = "asking"
    /\ \E legalMoves \in { getLegalMoves(requests[i].board, requests[i].turn) } :
         LET r == requests[i]
         IN  IF Cardinality(legalMoves) > 0
             THEN \E k \in 0..(RandomGrain - 1) :
                    \E move \in { randomMove(legalMoves, k) } :
                      /\ executeMove(r.board, r.turn, move)
                      /\ useEffectAiTurn(FALSE, AiTrouble,
                                         RemoveAt(requests, i))
                      /\ last' = Did("ai", r.board, move, r.game < nResets)
             ELSE /\ UNCHANGED <<board, lastMove, selectedPos,
                                 validDestinations, gameStatus, turn>>
                  /\ useEffectAiTurn(FALSE, AiTrouble, RemoveAt(requests, i))
                  /\ last' = Did("ai", r.board, NoMove, r.game < nResets)

\* The headline of the status panel.
getStatusText ==
    IF gameStatus = CHECKMATE
    THEN (IF turn = RED THEN "You Lost!" ELSE "You Won!")
    ELSE IF gameStatus = STALEMATE THEN "Stalemate"
    ELSE IF isAiThinking THEN "AI is thinking..."
    ELSE IF turn = RED THEN "Your Turn (Red)" ELSE "Waiting..."

Init ==
    /\ board = InitialGame.board
    /\ turn = InitialGame.turn
    /\ selectedPos = NoPos
    /\ validDestinations = {}
    /\ gameStatus = PLAYING
    /\ lastMove = NoMove
    /\ isAiThinking = FALSE
    /\ aiError = NoError
    /\ requests = <<>>
    /\ last = [kind |-> "mount", applied |-> FALSE, input |-> EmptyBoard,
                general |-> FALSE,
               stale |-> FALSE, started |-> FALSE]
    /\ nHumanMoves = 0
    /\ nResets = 0
    /\ humanMoved = FALSE

Next ==
    \/ \E pos \in ClickSquares : handleSquareClick(pos)
    \/ resetGame
    \/ \E i \in 1..Len(requests) : makeAiMoveDelay(i)
    \/ \E i \in 1..Len(requests) : makeAiMoveNoAnswer(i)
    \/ \E i \in 1..Len(requests) : makeAiMoveCatch(i)
    \/ \E i \in 1..Len(requests) : \E a \in Suggestions : makeAiMoveAnswer(i, a)

Spec == Init /\ [][Next]_vars

\* An outstanding makeAiMove continues: the timer fires, and getBestMove
\* resolves with a move, resolves with nothing, or rejects.
AiContinues ==
    \E i \in 1..Len(requests) :
        \/ makeAiMoveDelay(i)
        \/ \E a \in Suggestions : makeAiMoveAnswer(i, a)
        \/ makeAiMoveNoAnswer(i)
        \/ makeAiMoveCatch(i)

FairSpec == Spec /\ WF_vars(AiContinues)

\* ------------------------------------------------------------------ claims

\* C1: every move the driver applies is a member of getLegalMoves(board,
\* turn) of the board and the side to move current when it is applied; a
\* collaborator answer outside that set is never applied.
C1_AppliedMoveIsLegal ==
    [][last'.applied => lastMove' \in getLegalMoves(board, turn)]_vars

\* C2: each time executeMove replaces the board, the side to move afterwards
\* is the opposite colour of the side to move before.
C2_TurnAlternates ==
    [][last'.applied => turn' = Opposite(turn)]_vars

\* C3: whenever Black is to move and the status is Playing, eventually Red is
\* to move or the status is terminal (given that requests complete).
C3_AiTurnProgresses ==
    (turn = BLACK /\ gameStatus = PLAYING)
        ~> (turn = RED \/ gameStatus # PLAYING)

\* C4: while a request to the collaborator is outstanding (getBestMove has
\* been called and has neither resolved nor rejected) no square click changes
\* the selection, the valid-destination list, the board or the side to move.
C4_NoClickWhileOutstanding ==
    [][((\E i \in 1..Len(requests) : requests[i].phase = "asking")
          /\ last'.kind = "click")
         => UNCHANGED <<selectedPos, validDestinations, board, turn>>]_vars

\* C5: when an applied move lands on a square occupied by a General, the
\* status is Checkmate right after it and no request is started.
C5_GeneralCaptureIsTerminal ==
    (last.applied /\ last.general)
        => (gameStatus = CHECKMATE /\ ~last.started)

C5_Witness ==
    last.applied /\ last.general /\ gameStatus = CHECKMATE

\* C6: after an applied move that does not capture a General the status is
\* Checkmate iff the new side to move has no legal move, and Playing
\* otherwise; Stalemate and Draw are never assigned.
C6_TerminalIffNoLegalMoves ==
    /\ gameStatus \in {PLAYING, CHECKMATE}
    /\ (last.applied /\ ~last.general)
          => IF getLegalMoves(board, turn) = {}
             THEN gameStatus = CHECKMATE
             ELSE gameStatus = PLAYING

\* C7: the board after an applied move differs from the board the move was
\* applied to in the origin, which is empty, and the destination, which holds
\* the piece that stood on the origin; every other square is unchanged.
C7_MoveFrame ==
    last.applied =>
        /\ board[lastMove.from.y][lastMove.from.x] = null
        /\ board[lastMove.to.y][lastMove.to.x] =
               last.input[lastMove.from.y][lastMove.from.x]
        /\ \A q \in Position \ {lastMove.from, lastMove.to} :
               board[q.y][q.x] = last.input[q.y][q.x]

\* The standard setup, row by row from Black's back rank; Red mirrors Black.
StandardRows ==
    << <<ROOK, HORSE, ELEPHANT, ADVISOR, GENERAL, ADVISOR, ELEPHANT, HORSE, ROOK>>,
       <<"", "", "", "", "", "", "", "", "">>,
       <<"", CANNON, "", "", "", "", "", CANNON, "">>,
       <<SOLDIER, "", SOLDIER, "", SOLDIER, "", SOLDIER, "", SOLDIER>>,
       <<"", "", "", "", "", "", "", "", "">> >>

StandardSetup ==
    [y \in Ys |-> [x \in Xs |->
        LET t == IF y <= 4 THEN StandardRows[y + 1][x + 1]
                 ELSE StandardRows[MaxY - y + 1][x + 1]
        IN  IF t = "" THEN null
            ELSE Piece(t, IF y <= 4 THEN BLACK ELSE RED)]]

\* C8: New Game yields the initial game state: the standard setup, Red to
\* move, Playing, no last move, no selection, no valid destination, the
\* AI-thinking flag false and no AI error.
C8_ResetYieldsInitialState ==
    last.kind = "reset" =>
        /\ board = StandardSetup
        /\ turn = RED
        /\ gameStatus = PLAYING
        /\ lastMove = NoMove
        /\ selectedPos = NoPos
        /\ validDestinations = {}
        /\ isAiThinking = FALSE
        /\ aiError = NoError

C8_Witness ==
    /\ last.kind = "reset"
    /\ nHumanMoves > 0
    /\ Len(requests) > 0
    /\ board = StandardSetup

C10_OldRequestIgnored ==
    (nResets > 0 /\ ~humanMoved)
        => (board = InitialGame.board /\ turn = RED /\ lastMove = NoMove)

\* C11: once the status is Checkmate, until New Game is pressed, the board,
\* the side to move and the last move do not change, no click is accepted and
\* no request is started.
C11_TerminalIsAbsorbing ==
    [][(gameStatus = CHECKMATE /\ last'.kind # "reset")
         => /\ UNCHANGED <<board, turn, lastMove>>
            /\ last'.kind # "click"
            /\ ~last'.started]_vars

\* The colour of the piece that made the last applied move: it stands on the
\* destination of lastMove.
LastMover == board[lastMove.to.y][lastMove.to.x].color

\* C12: in every state whose status is Checkmate the side to move is the side
\* that did not make the last applied move, so the headline is "You Won!"
\* exactly when Red made it and "You Lost!" exactly when Black made it.
C12_ResultNamesWinner ==
    (gameStatus = CHECKMATE /\ lastMove # NoMove)
        => /\ turn # LastMover
           /\ (getStatusText = "You Won!") <=> (LastMover = RED)
           /\ (getStatusText = "You Lost!") <=> (LastMover = BLACK)

\* C13: a selected square holds a Red piece of the current board, Red is to
\* move, and the valid destinations are exactly the destinations of the legal
\* moves of Red from that square; with no selection the list is empty, and
\* after an applied move or New Game both are cleared.
C13_SelectionConsistent ==
    /\ selectedPos # NoPos =>
          /\ board[selectedPos.y][selectedPos.x] # null
          /\ board[selectedPos.y][selectedPos.x].color = RED
          /\ turn = RED
          /\ validDestinations =
               { m.to : m \in { l \in getLegalMoves(board, RED) :
                                  l.from = selectedPos } }
    /\ selectedPos = NoPos => validDestinations = {}
    /\ (last.applied \/ last.kind = "reset") =>
          (selectedPos = NoPos /\ validDestinations = {})

C13_Witness ==
    /\ selectedPos # NoPos
    /\ validDestinations # {}
    /\ lastMove # NoMove
    /\ Len(requests) > 0

\* C14: a click applies a move only when the status is Playing, the
\* AI-thinking flag is false and Red is to move, and the move goes from the
\* selected Red piece to a destination of a legal move of Red.
C14_HumanMovesAreLegalRedMoves ==
    [][(last'.kind = "click" /\ last'.applied)
         => /\ gameStatus = PLAYING
            /\ ~isAiThinking
            /\ turn = RED
            /\ lastMove'.from = selectedPos
            /\ board[selectedPos.y][selectedPos.x].color = RED
            /\ lastMove' \in getLegalMoves(board, RED)
            /\ board' = applyMove(board, lastMove')]_vars

C14_Witness ==
    /\ last.kind = "click"
    /\ last.applied
    /\ nHumanMoves = 2
    /\ nResets = 0

\* C15: at most one request to the collaborator is outstanding at a time,
\* and a request is started only when Black is to move and the status is
\* Playing.
C15_OneRequestAtATime ==
    /\ Cardinality({ i \in 1..Len(requests) :
                        requests[i].phase = "asking" }) <= 1
    /\ last.started => (turn = BLACK /\ gameStatus = PLAYING)

\* C16: for every request passed to the collaborator, the encoding is of the
\* request's board with Black to move, the move set is the legal moves of
\* that board and side, and the colour passed is that side.
C16_RequestIsConsistent ==
    \A i \in 1..Len(requests) :
        requests[i].phase = "asking" =>
            /\ requests[i].turn = BLACK
            /\ requests[i].fen = boardToFEN(requests[i].board, requests[i].turn)
            /\ requests[i].legalMoves =
                 getLegalMoves(requests[i].board, requests[i].turn)
            /\ requests[i].color = requests[i].turn

====
